---- MODULE Spec2Model ----
(***************************************************************************)
(* BitcoinFeesAlert bot: a Telegram bot that keeps per-chat fee alerts and *)
(* transaction watches in two AloeDB collections, polls mempool.space and  *)
(* notifies chats.  Two programs share the design: src/src/index.ts (fee   *)
(* alerts on hourFee plus transaction watches, two runJobInterval loops)   *)
(* and src/unnamed/part_000 (fee alerts on economyFee only, one            *)
(* while(true) loop).  The variable `variant` says which program runs.     *)
(*                                                                         *)
(* Every `await` of the source is a point where the other coroutines of    *)
(* the single-threaded event loop may run, so each handler or job is cut   *)
(* into one action per stretch of code between two awaits.  A store call   *)
(* (findOne, findMany, insertOne, updateOne, deleteOne) reads or mutates   *)
(* the in-memory documents at the moment it is called.                     *)
(***************************************************************************)
EXTENDS Integers, Sequences, FiniteSets, TLC

\* ------------------------------------------------------------------ bounds
\* Fee levels (sat/vbyte) the upstream may report and users may ask for.
MaxFee == 2

\* ------------------------------------------------------- program constants
CacheTTL == 1000 * 60
FeeInterval == 1000 * 60 * 1
TxInterval == 1000 * 60 * 5

\* Time passes in steps of one freshness window.
ClockStep == CacheTTL
\* Ages beyond the freshness window are all alike: they saturate here.
AgeCap == CacheTTL + ClockStep
\* The history of fetchFees calls tells apart start times up to here.
LogCap == 2 * CacheTTL + ClockStep

Chats == {"u1", "u2"}
Variants == {"index", "part_000"}

Min(a, b) == IF a <= b THEN a ELSE b
Max(a, b) == IF a >= b THEN a ELSE b

\* ------------------------------------------------------------- data types
\* MempoolApiResponse, reduced to the two tiers the programs compare.
FeeLevels == 1..MaxFee
MempoolApiResponse ==
  { t \in [kind : {"fees"}, hourFee : FeeLevels, economyFee : FeeLevels] :
      t.economyFee <= t.hourFee }
\* A JSON body that is no fee table (the answer of a non-success status):
\* its hourFee and economyFee are undefined.
ErrorBody == [kind |-> "error", hourFee |-> 0, economyFee |-> 0]
\* `undefined`, the initial value of `cached`.
Undefined == [kind |-> "undefined", hourFee |-> 0, economyFee |-> 0]

\* What the upstream can answer to GET /api/v1/fees/recommended.
FeeResponses ==
  { [net |-> "error", status |-> 0, json |-> FALSE, body |-> Undefined] }
  \cup { [net |-> "ok", status |-> 200, json |-> TRUE, body |-> b] :
           b \in MempoolApiResponse }
  \cup { [net |-> "ok", status |-> 500, json |-> TRUE, body |-> ErrorBody],
         [net |-> "ok", status |-> 500, json |-> FALSE, body |-> Undefined] }

\* UserAlert; `null` is the answer of findOne when nothing matches.
NullAlert == [telegram_id |-> "", feeAmount |-> 0, feeType |-> "null"]

\* The arguments of /tx: none, two strings too short for a transaction id,
\* and two transaction ids.
TxIds == {"txa", "txb"}
TxMatches == {"", "short"} \cup TxIds

\* txId.length
TxLength(txId) ==
  IF txId = "" THEN 0 ELSE IF txId = "short" THEN 50 ELSE 64

\* TransactionApiResponse, reduced to status.confirmed; `undefined` is what
\* fetchTransaction returns for a status other than 200.
TransactionApiResponse == [kind : {"tx"}, confirmed : BOOLEAN]
UndefinedTx == [kind |-> "undefined", confirmed |-> FALSE]

\* What the upstream can answer to GET /api/tx/<txId>.
TxResponses ==
  { [net |-> "error", status |-> 0, body |-> UndefinedTx],
    [net |-> "ok", status |-> 404, body |-> UndefinedTx] }
  \cup { [net |-> "ok", status |-> 200, body |-> b] : b \in TransactionApiResponse }

\* Transaction; `null` is the answer of findOne when nothing matches.
NullTx == [telegram_id |-> "", txId |-> "", confirmed |-> FALSE]

VARIABLES
  variant,      \* which program runs: "index" or "part_000"
  alive,        \* FALSE once the process died of an unhandled rejection
  cached,       \* let cached
  cachedAge,    \* new Date().getTime() - cachedAt.getTime(), saturated
  Alerts,       \* documents of the Alerts (db) collection, in order
  Transactions, \* documents of the Transactions collection, in order
  handler,      \* the update the bot is handling (grammY handles one at a time)
  feeJob,       \* the fee loop: checkFeesJob under runJobInterval / while(true)
  txJob,        \* the transaction loop: checkTransactionsJob under runJobInterval
  fetchLog,     \* history: the last two fetchFees calls that returned
  fired,        \* history: the firings of alerts and the writes of handlers
  txLog         \* history: the upstream's answer to the running /tx handler

vars == << variant, alive, cached, cachedAge, Alerts, Transactions,
           handler, feeJob, txJob, fetchLog, fired, txLog >>

\* ---------------------------------------------------------------- helpers
\* The first of the documents a query matches, given their indices: AloeDB
\* searches the documents in order.  0 when there is none.
FirstIndex(hits) ==
  IF hits = {} THEN 0 ELSE CHOOSE i \in hits : \A j \in hits : i <= j

RemoveAt(docs, i) ==
  [j \in 1..(Len(docs) - 1) |-> IF j < i THEN docs[j] ELSE docs[j + 1]]

\* Number(ctx.match): the empty string is 0, a decimal numeral is its value,
\* anything else is NaN.
Matches == {"", "abc"} \cup { ToString(n) : n \in 0..MaxFee }
Number(match) ==
  IF match = "" THEN [nan |-> FALSE, val |-> 0]
  ELSE IF \E n \in 0..MaxFee : ToString(n) = match
       THEN [nan |-> FALSE, val |-> CHOOSE n \in 0..MaxFee : ToString(n) = match]
       ELSE [nan |-> TRUE, val |-> 0]

\* The tier each program alerts on: the feeType it stores and the field of
\* the fee table it compares with.
Tier == IF variant = "index" THEN "hourFee" ELSE "economyFee"
TierFee(fees) == IF variant = "index" THEN fees.hourFee ELSE fees.economyFee

\* A comparison that leaves out the equal threshold.
moreThan(fees, feeAmount) ==
  fees.kind = "fees" /\ feeAmount > TierFee(fees)

\* moreThanOrEqual(value): a stored number matches when it is >= value;
\* nothing is >= undefined.
moreThanOrEqual(fees, feeAmount) ==
  fees.kind = "fees" /\ feeAmount >= TierFee(fees)

\* ------------------------------------------------------------ store calls
\* A findOne that finds nothing.
AlertsFindNone(chat) == NullAlert

\* Alerts.findOne({ telegram_id })
AlertsFindOne(chat) ==
  LET i == FirstIndex({ k \in 1..Len(Alerts) : Alerts[k].telegram_id = chat })
  IN  IF i = 0 THEN NullAlert ELSE Alerts[i]

\* Alerts.updateOne({ telegram_id }, userAlert): the first match takes the
\* fields of userAlert; no match, no change.
AlertsUpdateOne(chat, userAlert) ==
  LET i == FirstIndex({ k \in 1..Len(Alerts) : Alerts[k].telegram_id = chat })
  IN  IF i = 0 THEN Alerts ELSE [Alerts EXCEPT ![i] = userAlert]

\* Alerts.insertOne({ telegram_id, feeType, feeAmount })
AlertsInsertOne(chat, feeAmount) ==
  Append(Alerts, [telegram_id |-> chat, feeAmount |-> feeAmount, feeType |-> Tier])

\* Alerts.findMany({ feeAmount: moreThanOrEqual(fees.<tier>) })
AlertsFindMany(fees) ==
  SelectSeq(Alerts, LAMBDA d : moreThanOrEqual(fees, d.feeAmount))

\* A deleteOne that removes nothing.
AlertsDeleteNone(alert) == Alerts

\* A deleteOne that removes the first document, whichever it is.
AlertsDeleteFirst(alert) ==
  IF Alerts = << >> THEN Alerts ELSE RemoveAt(Alerts, 1)

\* A deleteOne that matches on the chat alone.
AlertsDeleteByChat(alert) ==
  LET i == FirstIndex({ k \in 1..Len(Alerts) :
                          Alerts[k].telegram_id = alert.telegram_id })
  IN  IF i = 0 THEN Alerts ELSE RemoveAt(Alerts, i)

\* Alerts.deleteOne(alert): removes the first document equal to `alert` in
\* every field; no match, no change.
AlertsDeleteOne(alert) ==
  LET i == FirstIndex({ k \in 1..Len(Alerts) : Alerts[k] = alert })
  IN  IF i = 0 THEN Alerts ELSE RemoveAt(Alerts, i)

\* A findOne that passes over the confirmed records.
TransactionsFindOneUnconfirmed(chat, txId) ==
  LET i == FirstIndex({ k \in 1..Len(Transactions) :
                          /\ Transactions[k].telegram_id = chat
                          /\ Transactions[k].txId = txId
                          /\ ~Transactions[k].confirmed })
  IN  IF i = 0 THEN NullTx ELSE Transactions[i]

\* Transactions.findOne({ telegram_id, txId })
TransactionsFindOne(chat, txId) ==
  LET i == FirstIndex({ k \in 1..Len(Transactions) :
                          /\ Transactions[k].telegram_id = chat
                          /\ Transactions[k].txId = txId })
  IN  IF i = 0 THEN NullTx ELSE Transactions[i]

\* Transactions.insertOne({ telegram_id, txId, confirmed: false })
TransactionsInsertOne(chat, txId) ==
  Append(Transactions, [telegram_id |-> chat, txId |-> txId, confirmed |-> FALSE])

\* A findMany that returns every record.
TransactionsFindAll == Transactions

\* Transactions.findMany({ confirmed: false })
TransactionsFindMany ==
  SelectSeq(Transactions, LAMBDA d : d.confirmed = FALSE)

\* An update that confirms every record of the transaction id, whichever
\* chat it belongs to.
TransactionsUpdateByTxId(unconfirmedTransaction) ==
  [k \in 1..Len(Transactions) |->
     IF Transactions[k].txId = unconfirmedTransaction.txId
     THEN [Transactions[k] EXCEPT !.confirmed = TRUE]
     ELSE Transactions[k]]

\* Transactions.updateOne(unconfirmedTransaction, { confirmed: true }): the
\* first document equal to the query in every field becomes confirmed; no
\* match, no change.
TransactionsUpdateOne(unconfirmedTransaction) ==
  LET i == FirstIndex({ k \in 1..Len(Transactions) : Transactions[k] = unconfirmedTransaction })
  IN  IF i = 0 THEN Transactions
      ELSE [Transactions EXCEPT ![i] = [@ EXCEPT !.confirmed = TRUE]]

\* ------------------------------------------------------- fetchTransaction
\* fetch() rejects when the connection failed.
FetchRejects(resp) == resp.net = "error"

\* The data of a response with status 200, undefined for any other status.
fetchTransaction(resp) ==
  IF resp.status = 200 THEN resp.body ELSE UndefinedTx

\* -------------------------------------------------------------- fetchFees
\* cached && cachedAt && new Date().getTime() - cachedAt.getTime() <= 1000 * 60
CacheFresh == cached.kind # "undefined" /\ cachedAge <= CacheTTL

\* response.json() rejects when the connection failed or the body is no JSON.
JsonRejects(resp) == resp.net = "error" \/ ~resp.json

\* ------------------------------------------------------------ local state
IdleHandler ==
  [cmd |-> "none", pc |-> "idle", chat |-> "", feeAmount |-> 0,
   userAlert |-> NullAlert, fees |-> Undefined, txId |-> "", tx |-> NullTx]

\* The promise of the async task of a matched alert: pending, with the alert
\* its task works on, or settled, with its status only.
Task(alert) == [status |-> "sending", alert |-> alert]
Settled(status) == [status |-> status, alert |-> NullAlert]

SleepingFeeJob(timer) ==
  [pc |-> "sleeping", timer |-> timer, fees |-> Undefined, tasks |-> << >>]

\* The transaction loop between two ticks; part_000 has no such loop.
SleepingTxJob(timer) ==
  [pc |-> IF variant = "index" THEN "sleeping" ELSE "off", timer |-> timer,
   unconfirmedTransactions |-> << >>, i |-> 0]

Init ==
  /\ variant \in Variants
  /\ alive = TRUE
  /\ cached = Undefined
  /\ cachedAge = 0
  /\ Alerts = << >>
  /\ Transactions = << >>
  /\ handler = IdleHandler
  /\ feeJob = SleepingFeeJob(0)
  /\ txJob = SleepingTxJob(0)
  /\ fetchLog = [calls |-> << >>, handler |-> 0, job |-> 0, answer |-> "none"]
  /\ fired = [fulfilled |-> {}, settled |-> {}, removed |-> {}, written |-> {},
              afterWrite |-> {}, unremoved |-> {}, kept |-> {}]
  /\ txLog = [status |-> 0, confirmed |-> FALSE, sweep |-> "none",
              sendFailed |-> FALSE, sent |-> {}]

\* --------------------------------------------------------- process death
\* An unhandled rejection ends the process: its memory (the handler, the
\* loops) is gone, the documents of the store stay.  `who` rejected:
\*   "handler"  a command handler threw; no bot.catch is registered, so the
\*              bot stops polling and bot.start() rejects, which nothing
\*              handles;
\*   "feeJob"   a tick of the fee loop rejected: `await fn().catch()`
\*              registers no handler, so the rejection passes through,
\*              setTimeout is not reached and runJobInterval rejects; in
\*              part_000 the top-level await of the while(true) loop rejects;
\*   "txJob"    a tick of the transaction loop rejected, likewise.
Died(who) ==
  /\ alive' = FALSE
  /\ handler' = [IdleHandler EXCEPT !.pc = IF who = "handler" THEN "thrown" ELSE "killed"]
  /\ feeJob' = [SleepingFeeJob(0) EXCEPT
                  !.pc = IF who = "feeJob" THEN "terminated" ELSE "killed"]
  /\ txJob' = IF variant # "index" THEN txJob
              ELSE [SleepingTxJob(0) EXCEPT
                      !.pc = IF who = "txJob" THEN "terminated" ELSE "killed"]

\* ------------------------------------------------------------------- time
\* ClockStep milliseconds pass: the cache ages, the pending timers of the
\* loops come nearer.
Tick ==
  /\ alive
  /\ cachedAge' = IF cached.kind = "undefined" THEN cachedAge
                  ELSE Min(cachedAge + ClockStep, AgeCap)
  /\ feeJob' = [feeJob EXCEPT !.timer = Max(@ - ClockStep, 0)]
  /\ txJob' = [txJob EXCEPT !.timer = Max(@ - ClockStep, 0)]
  /\ UNCHANGED << variant, alive, cached, Alerts, Transactions, handler >>

\* ---------------------------------------------------------- /alert handler
\* bot.command("alert"): Number(ctx.match), the validity test, and on a valid
\* number the call of Alerts.findOne.
AlertCommand(chat, match) ==
  LET n == Number(match) IN
  /\ alive
  /\ handler.pc = "idle"
  /\ IF n.nan \/ n.val = 0
     THEN handler' = [IdleHandler EXCEPT !.cmd = "alert", !.pc = "alert_invalid",
                                            !.chat = chat]
     ELSE handler' = [IdleHandler EXCEPT !.cmd = "alert", !.pc = "alert_found",
                                            !.chat = chat, !.feeAmount = n.val,
                                            !.userAlert = AlertsFindOne(chat)]
  /\ UNCHANGED << variant, alive, cached, cachedAge, Alerts, Transactions,
                  feeJob, txJob >>

\* After findOne: updateOne of the found alert, or insertOne of a new one.
AlertUpsert ==
  /\ alive
  /\ handler.pc = "alert_found"
  /\ Alerts' = IF handler.userAlert # NullAlert
               THEN AlertsUpdateOne(handler.chat,
                      [handler.userAlert EXCEPT !.feeAmount = handler.feeAmount])
               ELSE AlertsInsertOne(handler.chat, handler.feeAmount)
  /\ handler' = [handler EXCEPT !.pc = "alert_written"]
  /\ UNCHANGED << variant, alive, cached, cachedAge, Transactions, feeJob, txJob >>

\* The handler's last await, ctx.reply or bot.api.sendMessage, settles and
\* the handler returns (ok) or throws.
Replied(ok) ==
  /\ alive
  /\ IF ok
     THEN handler' = IdleHandler /\ UNCHANGED << alive, feeJob, txJob >>
     ELSE Died("handler")
  /\ UNCHANGED << variant, cached, cachedAge, Alerts, Transactions >>

\* The usage reply to an invalid /alert argument settles.
AlertRejected(ok) == handler.pc = "alert_invalid" /\ Replied(ok)

\* The confirmation reply of /alert settles.
AlertReplied(ok) == handler.pc = "alert_written" /\ Replied(ok)

\* ----------------------------------------------------------- /fees handler
\* bot.command("fees"): the call of fetchFees, up to its first await.
FeesCommand(chat) ==
  /\ alive
  /\ handler.pc = "idle"
  /\ handler' = IF CacheFresh
                THEN [IdleHandler EXCEPT !.cmd = "fees", !.pc = "fees_ready",
                                         !.chat = chat, !.fees = cached]
                ELSE [IdleHandler EXCEPT !.cmd = "fees", !.pc = "fees_fetching",
                                         !.chat = chat]
  /\ UNCHANGED << variant, alive, cached, cachedAge, Alerts, Transactions,
                  feeJob, txJob >>

\* fetchFees in the handler: the upstream answers; response.json() gives the
\* data, which is stored and returned, or rejects and the handler throws.
FeesFetched(resp) ==
  /\ alive
  /\ handler.pc = "fees_fetching"
  /\ IF JsonRejects(resp)
     THEN /\ Died("handler")
          /\ UNCHANGED << cached, cachedAge >>
     ELSE /\ cached' = resp.body
          /\ cachedAge' = 0
          /\ handler' = [handler EXCEPT !.pc = "fees_ready", !.fees = resp.body]
          /\ UNCHANGED << alive, feeJob, txJob >>
  /\ UNCHANGED << variant, Alerts, Transactions >>

\* The message with the fees is sent and the send settles.
FeesReplied(ok) == handler.pc = "fees_ready" /\ Replied(ok)

\* ------------------------------------------------------------- /tx handler
\* A test that takes every transaction for unconfirmed.
NeverConfirmed(transaction) == FALSE

\* transaction.status.confirmed
AlreadyConfirmed(transaction) == transaction.confirmed

\* A /tx handler that lets a string of 50 characters through.
TxCommandBelow50(chat, txId) ==
  /\ alive
  /\ variant = "index"
  /\ handler.pc = "idle"
  /\ handler' =
       [IdleHandler EXCEPT !.cmd = "tx", !.chat = chat, !.txId = txId,
          !.pc = IF txId = "" THEN "tx_missing"
                 ELSE IF TxLength(txId) < 50 THEN "tx_invalid"
                 ELSE "tx_fetching"]
  /\ UNCHANGED << variant, alive, cached, cachedAge, Alerts, Transactions,
                  feeJob, txJob >>

\* bot.command(['tx', 'transaction']): txId = ctx.match, its tests and, for a
\* string longer than 50, the call of fetchTransaction.
TxCommand(chat, txId) ==
  /\ alive
  /\ variant = "index"
  /\ handler.pc = "idle"
  /\ handler' =
       [IdleHandler EXCEPT !.cmd = "tx", !.chat = chat, !.txId = txId,
          !.pc = IF txId = "" THEN "tx_missing"
                 ELSE IF TxLength(txId) <= 50 THEN "tx_invalid"
                 ELSE "tx_fetching"]
  /\ UNCHANGED << variant, alive, cached, cachedAge, Alerts, Transactions,
                  feeJob, txJob >>

\* fetchTransaction in the handler: the upstream answers.  No transaction or
\* a confirmed one gets a reply; for an unconfirmed one Transactions.findOne
\* is called.
TxFetched(resp) ==
  LET transaction == fetchTransaction(resp) IN
  /\ alive
  /\ handler.pc = "tx_fetching"
  /\ IF FetchRejects(resp)
     THEN Died("handler")
     ELSE /\ handler' =
               IF transaction = UndefinedTx
               THEN [handler EXCEPT !.pc = "tx_notfound"]
               ELSE IF AlreadyConfirmed(transaction)
               THEN [handler EXCEPT !.pc = "tx_confirmed"]
               ELSE [handler EXCEPT !.pc = "tx_found",
                       !.tx = TransactionsFindOne(handler.chat, handler.txId)]
          /\ UNCHANGED << alive, feeJob, txJob >>
  /\ UNCHANGED << variant, cached, cachedAge, Alerts, Transactions >>

\* After findOne: a reply when the chat tracks the transaction already,
\* insertOne of a new record otherwise.
TxInsert ==
  /\ alive
  /\ handler.pc = "tx_found"
  /\ IF handler.tx # NullTx
     THEN /\ handler' = [handler EXCEPT !.pc = "tx_exists"]
          /\ UNCHANGED Transactions
     ELSE /\ Transactions' = TransactionsInsertOne(handler.chat, handler.txId)
          /\ handler' = [handler EXCEPT !.pc = "tx_inserted"]
  /\ UNCHANGED << variant, alive, cached, cachedAge, Alerts, feeJob, txJob >>

\* The reply of /tx settles, whichever it is.
TxReplied(ok) ==
  /\ handler.pc \in {"tx_missing", "tx_invalid", "tx_notfound", "tx_confirmed",
                     "tx_exists", "tx_inserted"}
  /\ Replied(ok)

\* ---------------------------------------------------------------- fee loop
\* A tick that arms the timer of the next tick as it starts.
FeeTickStartRearming ==
  /\ alive
  /\ feeJob.pc = "sleeping"
  /\ feeJob.timer = 0
  /\ feeJob' = IF CacheFresh
               THEN [feeJob EXCEPT !.pc = "fees_ready", !.fees = cached,
                                   !.timer = FeeInterval]
               ELSE [feeJob EXCEPT !.pc = "fetching", !.timer = FeeInterval]
  /\ UNCHANGED << variant, alive, cached, cachedAge, Alerts, Transactions,
                  handler, txJob >>

\* The timer fires: a tick starts with the call of fetchFees.
FeeTickStart ==
  /\ alive
  /\ feeJob.pc = "sleeping"
  /\ feeJob.timer = 0
  /\ feeJob' = IF CacheFresh
               THEN [feeJob EXCEPT !.pc = "fees_ready", !.fees = cached]
               ELSE [feeJob EXCEPT !.pc = "fetching"]
  /\ UNCHANGED << variant, alive, cached, cachedAge, Alerts, Transactions,
                  handler, txJob >>

\* fetchFees in the tick: the upstream answers.
FeeTickFetched(resp) ==
  /\ alive
  /\ feeJob.pc = "fetching"
  /\ IF JsonRejects(resp)
     THEN /\ Died("feeJob")
          /\ UNCHANGED << cached, cachedAge >>
     ELSE /\ cached' = resp.body
          /\ cachedAge' = 0
          /\ feeJob' = [feeJob EXCEPT !.pc = "fees_ready", !.fees = resp.body]
          /\ UNCHANGED << alive, handler, txJob >>
  /\ UNCHANGED << variant, Alerts, Transactions >>

\* Alerts.findMany and the fan-out: every matched alert gets its own async
\* task, which starts by calling bot.api.sendMessage.  A store failure
\* rejects the tick.
FeeFindMany(storeOk) ==
  /\ alive
  /\ feeJob.pc = "fees_ready"
  /\ IF storeOk
     THEN LET alerts == AlertsFindMany(feeJob.fees) IN
          /\ feeJob' = [feeJob EXCEPT !.pc = "settling",
                           !.tasks = [i \in 1..Len(alerts) |-> Task(alerts[i])]]
          /\ UNCHANGED << alive, handler, txJob >>
     ELSE Died("feeJob")
  /\ UNCHANGED << variant, cached, cachedAge, Alerts, Transactions >>

\* A task that deletes its alert although its send failed.
FeeTaskSettleDeleteAnyway(i, sendOk, deleteOk) ==
  /\ alive
  /\ feeJob.pc = "settling"
  /\ i \in 1..Len(feeJob.tasks)
  /\ feeJob.tasks[i].status = "sending"
  /\ IF deleteOk
     THEN /\ Alerts' = AlertsDeleteOne(feeJob.tasks[i].alert)
          /\ feeJob' = [feeJob EXCEPT !.tasks[i] =
                          Settled(IF sendOk THEN "fulfilled" ELSE "rejected")]
     ELSE /\ feeJob' = [feeJob EXCEPT !.tasks[i] = Settled("rejected")]
          /\ UNCHANGED Alerts
  /\ UNCHANGED << variant, alive, cached, cachedAge, Transactions, handler, txJob >>

\* Task i: sendMessage settles; after a successful send Alerts.deleteOne(alert)
\* runs and settles.  A failed send or delete rejects the task only.
FeeTaskSettle(i, sendOk, deleteOk) ==
  /\ alive
  /\ feeJob.pc = "settling"
  /\ i \in 1..Len(feeJob.tasks)
  /\ feeJob.tasks[i].status = "sending"
  /\ IF sendOk /\ deleteOk
     THEN /\ Alerts' = AlertsDeleteOne(feeJob.tasks[i].alert)
          /\ feeJob' = [feeJob EXCEPT !.tasks[i] = Settled("fulfilled")]
     ELSE /\ feeJob' = [feeJob EXCEPT !.tasks[i] = Settled("rejected")]
          /\ UNCHANGED Alerts
  /\ UNCHANGED << variant, alive, cached, cachedAge, Transactions, handler, txJob >>

\* A tick that returns as soon as one task has settled.
FeeTickEndEarly ==
  /\ alive
  /\ feeJob.pc = "settling"
  /\ \E i \in 1..Len(feeJob.tasks) : feeJob.tasks[i].status # "sending"
  /\ feeJob' = SleepingFeeJob(FeeInterval)
  /\ UNCHANGED << variant, alive, cached, cachedAge, Alerts, Transactions,
                  handler, txJob >>

\* Promise.allSettled resolves, failures are logged, the tick returns and
\* the next one is scheduled FeeInterval after now.
FeeTickEnd ==
  /\ alive
  /\ feeJob.pc = "settling"
  /\ \A i \in 1..Len(feeJob.tasks) : feeJob.tasks[i].status # "sending"
  /\ feeJob' = SleepingFeeJob(FeeInterval)
  /\ UNCHANGED << variant, alive, cached, cachedAge, Alerts, Transactions,
                  handler, txJob >>

\* -------------------------------------------------------- transaction loop
\* The timer fires: a tick starts with Transactions.findMany; with nothing
\* to check the tick returns and the next one is scheduled.  A store failure
\* rejects the tick.
CheckTxStart(storeOk) ==
  /\ alive
  /\ txJob.pc = "sleeping"
  /\ txJob.timer = 0
  /\ IF storeOk
     THEN LET unconfirmedTransactions == TransactionsFindMany IN
          /\ txJob' = IF unconfirmedTransactions = << >>
                      THEN SleepingTxJob(TxInterval)
                      ELSE [txJob EXCEPT !.pc = "fetching", !.i = 1,
                              !.unconfirmedTransactions = unconfirmedTransactions]
          /\ UNCHANGED << alive, handler, feeJob >>
     ELSE Died("txJob")
  /\ UNCHANGED << variant, cached, cachedAge, Alerts, Transactions >>

\* A tick that takes a transaction the upstream does not know for confirmed.
CheckTxFetchedNotFoundSends(resp) ==
  LET transaction == fetchTransaction(resp) IN
  /\ alive
  /\ txJob.pc = "fetching"
  /\ IF FetchRejects(resp)
     THEN Died("txJob")
     ELSE /\ txJob' = IF transaction = UndefinedTx \/ transaction.confirmed
                      THEN [txJob EXCEPT !.pc = "sending"]
                      ELSE [txJob EXCEPT !.pc = "napping"]
          /\ UNCHANGED << alive, handler, feeJob >>
  /\ UNCHANGED << variant, cached, cachedAge, Alerts, Transactions >>

\* fetchTransaction in the tick: the upstream answers for the i-th record.
\* A confirmed transaction gets its notification; else the loop sleeps.
CheckTxFetched(resp) ==
  LET transaction == fetchTransaction(resp) IN
  /\ alive
  /\ txJob.pc = "fetching"
  /\ IF FetchRejects(resp)
     THEN Died("txJob")
     ELSE /\ txJob' = IF transaction # UndefinedTx /\ transaction.confirmed
                      THEN [txJob EXCEPT !.pc = "sending"]
                      ELSE [txJob EXCEPT !.pc = "napping"]
          /\ UNCHANGED << alive, handler, feeJob >>
  /\ UNCHANGED << variant, cached, cachedAge, Alerts, Transactions >>

\* sendMessage settles; after a successful send Transactions.updateOne runs
\* and settles.  A failed send or update rejects the tick.
CheckTxSent(sendOk, updateOk) ==
  /\ alive
  /\ txJob.pc = "sending"
  /\ IF sendOk /\ updateOk
     THEN /\ Transactions' =
               TransactionsUpdateOne(txJob.unconfirmedTransactions[txJob.i])
          /\ txJob' = [txJob EXCEPT !.pc = "napping"]
          /\ UNCHANGED << alive, handler, feeJob >>
     ELSE /\ Died("txJob")
          /\ UNCHANGED Transactions
  /\ UNCHANGED << variant, cached, cachedAge, Alerts >>

\* sleep(1000 * 3) is over: the next record, or the tick returns and the
\* next one is scheduled TxInterval after now.
CheckTxNapped ==
  /\ alive
  /\ txJob.pc = "napping"
  /\ txJob' = IF txJob.i < Len(txJob.unconfirmedTransactions)
              THEN [txJob EXCEPT !.pc = "fetching", !.i = @ + 1]
              ELSE SleepingTxJob(TxInterval)
  /\ UNCHANGED << variant, alive, cached, cachedAge, Alerts, Transactions,
                  handler, feeJob >>

\* ---------------------------------------------------------------- history
\* The history of fetchFees calls: for each of the last two calls that
\* returned, the time since it started (`ago`), what it returned and whether
\* it asked the upstream; and the time since the call in flight in the
\* handler and in the fee loop started; and whether the last answer of the
\* upstream was a success (status 200) or a failure (no answer, or another
\* status).
Logged(ago, data, upstream) ==
  LET e == [ago |-> ago, data |-> data, upstream |-> upstream]
      c == fetchLog.calls
  IN  IF Len(c) < 2 THEN Append(c, e) ELSE << c[2], e >>

LogOlder(age) == Min(age + ClockStep, LogCap)

\* The log as time passes.
LogTick ==
  fetchLog' = [calls |-> [i \in 1..Len(fetchLog.calls) |->
                            [fetchLog.calls[i] EXCEPT !.ago = LogOlder(@)]],
               handler |-> IF handler.pc = "fees_fetching"
                           THEN LogOlder(fetchLog.handler) ELSE 0,
               job |-> IF feeJob.pc = "fetching"
                       THEN LogOlder(fetchLog.job) ELSE 0,
               answer |-> fetchLog.answer]

\* The log as a fetchFees call starts: a fresh cache returns at once.
LogStart ==
  fetchLog' = IF CacheFresh
              THEN [fetchLog EXCEPT !.calls = Logged(0, cached, FALSE)]
              ELSE fetchLog

\* The log as the upstream answers the call of `who`.
Answer(resp) ==
  IF resp.net = "ok" /\ resp.status = 200 THEN "success" ELSE "failure"

LogAnswer(who, resp) ==
  fetchLog' = IF JsonRejects(resp)
              THEN [fetchLog EXCEPT ![who] = 0, !.answer = Answer(resp)]
              ELSE [fetchLog EXCEPT ![who] = 0, !.answer = Answer(resp),
                                    !.calls = Logged(fetchLog[who], resp.body, TRUE)]

\* The alerts of a chat in the store.
AlertsOf(docs, chat) == { i \in 1..Len(docs) : docs[i].telegram_id = chat }

\* What a step is, read off the program's state before and after it.
StartedValid == handler.pc = "idle" /\ handler'.pc = "alert_found"
Wrote == handler.pc = "alert_found" /\ handler'.pc = "alert_written"
Queried == feeJob.pc = "fees_ready" /\ feeJob'.pc = "settling"
Fulfilled(i) ==
  /\ feeJob.pc = "settling" /\ feeJob'.pc = "settling"
  /\ feeJob.tasks[i].status = "sending"
  /\ feeJob'.tasks[i].status = "fulfilled"
FulfilledChats ==
  { feeJob.tasks[i].alert.telegram_id :
      i \in { k \in 1..Len(feeJob.tasks) : Fulfilled(k) } }
RemovedChats == IF Len(Alerts') < Len(Alerts) THEN FulfilledChats ELSE {}

\* The history of the alerts, of which each specification keeps a part:
\*   fulfilled  chats a task of which, in the running tick, sent its
\*              notification and whose deleteOne did not fail;
\*   settled    chats a task of which sent its notification and whose
\*              deleteOne did not fail, with no valid /alert command since;
\*   removed    the same, where deleteOne removed the alert;
\*   written    chats whose /alert handler wrote to the store since the
\*              running tick queried it;
\*   afterWrite the chat whose alert a task removed between the write and
\*              the reply of its running /alert handler;
\*   unremoved  the alerts in the store a task of which sent its notification
\*              and whose deleteOne failed, until a tick matches them again;
\*   kept       chats whose task, in the running tick, sent its notification
\*              and whose deleteOne found the alert changed and removed
\*              nothing.
NoHistory ==
  [fulfilled |-> {}, settled |-> {}, removed |-> {}, written |-> {},
   afterWrite |-> {}, unremoved |-> {}, kept |-> {}]

LogWritten ==
  fired' =
    IF ~alive' \/ feeJob'.pc # "settling" \/ Queried THEN NoHistory
    ELSE IF Wrote THEN [fired EXCEPT !.written = @ \cup {handler.chat}]
    ELSE [fired EXCEPT !.fulfilled = @ \cup FulfilledChats]

LogAfterWrite ==
  fired' =
    IF ~alive' \/ handler'.pc # "alert_written" \/ Wrote THEN NoHistory
    ELSE [fired EXCEPT !.afterWrite = @ \cup (RemovedChats \cap {handler.chat})]

LogFired ==
  LET resub == IF StartedValid THEN {handler'.chat} ELSE {} IN
  fired' =
    IF ~alive' THEN NoHistory
    ELSE [fired EXCEPT !.settled = (@ \ resub) \cup FulfilledChats,
                       !.removed = (@ \ resub) \cup RemovedChats]

\* The documents of a collection, as a set.
Docs(docs) == { docs[k] : k \in 1..Len(docs) }

LogUnremoved(i, sendOk, deleteOk) ==
  fired' =
    IF ~alive' THEN NoHistory
    ELSE [fired EXCEPT !.unremoved =
            (IF sendOk /\ ~deleteOk THEN @ \cup {feeJob.tasks[i].alert} ELSE @)
              \cap Docs(Alerts')]

LogRetry ==
  fired' =
    IF ~alive' THEN NoHistory
    ELSE [fired EXCEPT !.unremoved =
            { a \in @ \cap Docs(Alerts') :
                ~(Queried /\ \E k \in 1..Len(feeJob'.tasks) :
                                feeJob'.tasks[k].alert = a) }]

\* The alerts of the store that differ from the matched alert, of the same
\* chat, at the time the task of that alert runs its deleteOne.
Changed ==
  { b \in Docs(Alerts) :
      \E i \in 1..Len(feeJob.tasks) :
        /\ Fulfilled(i)
        /\ b.telegram_id = feeJob.tasks[i].alert.telegram_id
        /\ b # feeJob.tasks[i].alert }

LogKept ==
  fired' =
    IF ~alive' THEN NoHistory
    ELSE [fired EXCEPT !.kept =
            IF feeJob'.pc # "settling" \/ Queried THEN {}
            ELSE IF Wrote THEN { a \in @ : a.telegram_id # handler.chat }
            ELSE @ \cup Changed]

\* The history of the /tx handler: the status and the confirmed flag of the
\* upstream's answer to the handler's fetchTransaction, until the handler
\* returns.
NoTxLog ==
  [status |-> 0, confirmed |-> FALSE, sweep |-> "none", sendFailed |-> FALSE,
   sent |-> {}]

LogTxAnswer(resp) ==
  txLog' = IF FetchRejects(resp) THEN NoTxLog
           ELSE [NoTxLog EXCEPT !.status = resp.status,
                                !.confirmed = resp.body.confirmed]

LogTx ==
  txLog' = IF handler'.pc \in {"tx_notfound", "tx_confirmed", "tx_found",
                               "tx_exists", "tx_inserted"}
           THEN txLog ELSE NoTxLog

\* The history of the transaction loop:
\*   sweep      what the upstream answered to the loop's last fetchTransaction
\*              ("none", "not_found", "unconfirmed", "confirmed"), until the
\*              loop goes on to the next record;
\*   sendFailed a sendMessage of the loop was rejected;
\*   sent       the chats and transaction ids of the records for which a
\*              sendMessage of the loop succeeded.
LogSweep ==
  txLog' = IF txJob'.pc \in {"napping", "sending"} THEN txLog
           ELSE [txLog EXCEPT !.sweep = "none"]

LogSweepAnswer(resp) ==
  txLog' = [txLog EXCEPT !.sweep =
              IF FetchRejects(resp) THEN "none"
              ELSE IF resp.status # 200 THEN "not_found"
              ELSE IF resp.body.confirmed THEN "confirmed" ELSE "unconfirmed"]

LogSweepSent(sendOk) ==
  LET w == txJob.unconfirmedTransactions[txJob.i] IN
  txLog' = IF sendOk
           THEN [txLog EXCEPT !.sent = @ \cup {<< w.telegram_id, w.txId >>}]
           ELSE [txLog EXCEPT !.sendFailed = TRUE]

\* ---------------------------------------------------------- specifications
\* The fee cache and its two callers: /fees commands and the fee loop.
NextCache ==
  \/ Tick /\ LogTick /\ UNCHANGED << fired, txLog >>
  \/ \E chat \in Chats : FeesCommand(chat) /\ LogStart /\ UNCHANGED << fired, txLog >>
  \/ \E resp \in FeeResponses :
        FeesFetched(resp) /\ LogAnswer("handler", resp) /\ UNCHANGED << fired, txLog >>
  \/ \E ok \in BOOLEAN : FeesReplied(ok) /\ UNCHANGED << fetchLog, fired, txLog >>
  \/ FeeTickStart /\ LogStart /\ UNCHANGED << fired, txLog >>
  \/ \E resp \in FeeResponses :
        FeeTickFetched(resp) /\ LogAnswer("job", resp) /\ UNCHANGED << fired, txLog >>
  \/ \E ok \in BOOLEAN : FeeFindMany(ok) /\ UNCHANGED << fetchLog, fired, txLog >>
  \/ FeeTickEnd /\ UNCHANGED << fetchLog, fired, txLog >>

SpecCache == Init /\ [][NextCache]_vars

\* The fee alerts: /alert commands and the fee loop, with the history of
\* the handlers' writes during a tick.
NextAlerts ==
  \/ Tick /\ LogWritten /\ UNCHANGED << fetchLog, txLog >>
  \/ \E chat \in Chats, match \in Matches :
        AlertCommand(chat, match) /\ LogWritten /\ UNCHANGED << fetchLog, txLog >>
  \/ AlertUpsert /\ LogWritten /\ UNCHANGED << fetchLog, txLog >>
  \/ \E ok \in BOOLEAN : AlertRejected(ok) /\ LogWritten /\ UNCHANGED << fetchLog, txLog >>
  \/ \E ok \in BOOLEAN : AlertReplied(ok) /\ LogWritten /\ UNCHANGED << fetchLog, txLog >>
  \/ FeeTickStart /\ LogWritten /\ UNCHANGED << fetchLog, txLog >>
  \/ \E resp \in FeeResponses :
        FeeTickFetched(resp) /\ LogWritten /\ UNCHANGED << fetchLog, txLog >>
  \/ \E ok \in BOOLEAN : FeeFindMany(ok) /\ LogWritten /\ UNCHANGED << fetchLog, txLog >>
  \/ \E i \in 1..Cardinality(Chats), sendOk, deleteOk \in BOOLEAN :
        FeeTaskSettle(i, sendOk, deleteOk) /\ LogWritten /\ UNCHANGED << fetchLog, txLog >>
  \/ FeeTickEnd /\ LogWritten /\ UNCHANGED << fetchLog, txLog >>

SpecAlerts == Init /\ [][NextAlerts]_vars

\* The same, with the history of removals after a handler's write.
NextUpsert ==
  \/ Tick /\ LogAfterWrite /\ UNCHANGED << fetchLog, txLog >>
  \/ \E chat \in Chats, match \in Matches :
        AlertCommand(chat, match) /\ LogAfterWrite /\ UNCHANGED << fetchLog, txLog >>
  \/ AlertUpsert /\ LogAfterWrite /\ UNCHANGED << fetchLog, txLog >>
  \/ \E ok \in BOOLEAN : AlertRejected(ok) /\ LogAfterWrite /\ UNCHANGED << fetchLog, txLog >>
  \/ \E ok \in BOOLEAN : AlertReplied(ok) /\ LogAfterWrite /\ UNCHANGED << fetchLog, txLog >>
  \/ FeeTickStart /\ LogAfterWrite /\ UNCHANGED << fetchLog, txLog >>
  \/ \E resp \in FeeResponses :
        FeeTickFetched(resp) /\ LogAfterWrite /\ UNCHANGED << fetchLog, txLog >>
  \/ \E ok \in BOOLEAN : FeeFindMany(ok) /\ LogAfterWrite /\ UNCHANGED << fetchLog, txLog >>
  \/ \E i \in 1..Cardinality(Chats), sendOk, deleteOk \in BOOLEAN :
        FeeTaskSettle(i, sendOk, deleteOk) /\ LogAfterWrite /\ UNCHANGED << fetchLog, txLog >>
  \/ FeeTickEnd /\ LogAfterWrite /\ UNCHANGED << fetchLog, txLog >>

SpecUpsert == Init /\ [][NextUpsert]_vars

\* The same, with the history of firings.
NextOneShot ==
  \/ Tick /\ LogFired /\ UNCHANGED << fetchLog, txLog >>
  \/ \E chat \in Chats, match \in Matches :
        AlertCommand(chat, match) /\ LogFired /\ UNCHANGED << fetchLog, txLog >>
  \/ AlertUpsert /\ LogFired /\ UNCHANGED << fetchLog, txLog >>
  \/ \E ok \in BOOLEAN : AlertRejected(ok) /\ LogFired /\ UNCHANGED << fetchLog, txLog >>
  \/ \E ok \in BOOLEAN : AlertReplied(ok) /\ LogFired /\ UNCHANGED << fetchLog, txLog >>
  \/ FeeTickStart /\ LogFired /\ UNCHANGED << fetchLog, txLog >>
  \/ \E resp \in FeeResponses :
        FeeTickFetched(resp) /\ LogFired /\ UNCHANGED << fetchLog, txLog >>
  \/ \E ok \in BOOLEAN : FeeFindMany(ok) /\ LogFired /\ UNCHANGED << fetchLog, txLog >>
  \/ \E i \in 1..Cardinality(Chats), sendOk, deleteOk \in BOOLEAN :
        FeeTaskSettle(i, sendOk, deleteOk) /\ LogFired /\ UNCHANGED << fetchLog, txLog >>
  \/ FeeTickEnd /\ LogFired /\ UNCHANGED << fetchLog, txLog >>

SpecOneShot == Init /\ [][NextOneShot]_vars

\* The transaction watches: /tx commands and the transaction loop.
NextTx ==
  \/ Tick /\ LogTx /\ UNCHANGED << fetchLog, fired >>
  \/ \E chat \in Chats, txId \in TxMatches :
        TxCommand(chat, txId) /\ LogTx /\ UNCHANGED << fetchLog, fired >>
  \/ \E resp \in TxResponses :
        TxFetched(resp) /\ LogTxAnswer(resp) /\ UNCHANGED << fetchLog, fired >>
  \/ TxInsert /\ LogTx /\ UNCHANGED << fetchLog, fired >>
  \/ \E ok \in BOOLEAN : TxReplied(ok) /\ LogTx /\ UNCHANGED << fetchLog, fired >>
  \/ \E storeOk \in BOOLEAN :
        CheckTxStart(storeOk) /\ LogTx /\ UNCHANGED << fetchLog, fired >>
  \/ \E resp \in TxResponses :
        CheckTxFetched(resp) /\ LogTx /\ UNCHANGED << fetchLog, fired >>
  \/ \E sendOk, updateOk \in BOOLEAN :
        CheckTxSent(sendOk, updateOk) /\ LogTx /\ UNCHANGED << fetchLog, fired >>
  \/ CheckTxNapped /\ LogTx /\ UNCHANGED << fetchLog, fired >>

SpecTx == Init /\ [][NextTx]_vars

\* The same, with the history of the transaction loop.
NextSweep ==
  \/ Tick /\ LogSweep /\ UNCHANGED << fetchLog, fired >>
  \/ \E chat \in Chats, txId \in TxMatches :
        TxCommand(chat, txId) /\ LogSweep /\ UNCHANGED << fetchLog, fired >>
  \/ \E resp \in TxResponses :
        TxFetched(resp) /\ LogSweep /\ UNCHANGED << fetchLog, fired >>
  \/ TxInsert /\ LogSweep /\ UNCHANGED << fetchLog, fired >>
  \/ \E ok \in BOOLEAN : TxReplied(ok) /\ LogSweep /\ UNCHANGED << fetchLog, fired >>
  \/ \E storeOk \in BOOLEAN :
        CheckTxStart(storeOk) /\ LogSweep /\ UNCHANGED << fetchLog, fired >>
  \/ \E resp \in TxResponses :
        CheckTxFetched(resp) /\ LogSweepAnswer(resp)
          /\ UNCHANGED << fetchLog, fired >>
  \/ \E sendOk, updateOk \in BOOLEAN :
        CheckTxSent(sendOk, updateOk) /\ LogSweepSent(sendOk)
          /\ UNCHANGED << fetchLog, fired >>
  \/ CheckTxNapped /\ LogSweep /\ UNCHANGED << fetchLog, fired >>

SpecSweep == Init /\ [][NextSweep]_vars

\* The fee alerts, with the history of the deletes that failed.
NextRetry ==
  \/ Tick /\ LogRetry /\ UNCHANGED << fetchLog, txLog >>
  \/ \E chat \in Chats, match \in Matches :
        AlertCommand(chat, match) /\ LogRetry /\ UNCHANGED << fetchLog, txLog >>
  \/ AlertUpsert /\ LogRetry /\ UNCHANGED << fetchLog, txLog >>
  \/ \E ok \in BOOLEAN : AlertRejected(ok) /\ LogRetry /\ UNCHANGED << fetchLog, txLog >>
  \/ \E ok \in BOOLEAN : AlertReplied(ok) /\ LogRetry /\ UNCHANGED << fetchLog, txLog >>
  \/ FeeTickStart /\ LogRetry /\ UNCHANGED << fetchLog, txLog >>
  \/ \E resp \in FeeResponses :
        FeeTickFetched(resp) /\ LogRetry /\ UNCHANGED << fetchLog, txLog >>
  \/ \E ok \in BOOLEAN : FeeFindMany(ok) /\ LogRetry /\ UNCHANGED << fetchLog, txLog >>
  \/ \E i \in 1..Cardinality(Chats), sendOk, deleteOk \in BOOLEAN :
        FeeTaskSettle(i, sendOk, deleteOk) /\ LogUnremoved(i, sendOk, deleteOk)
          /\ UNCHANGED << fetchLog, txLog >>
  \/ FeeTickEnd /\ LogRetry /\ UNCHANGED << fetchLog, txLog >>

SpecRetry == Init /\ [][NextRetry]_vars

\* The fee alerts, with the history of the deletes that found the alert
\* changed.
NextRace ==
  \/ Tick /\ LogKept /\ UNCHANGED << fetchLog, txLog >>
  \/ \E chat \in Chats, match \in Matches :
        AlertCommand(chat, match) /\ LogKept /\ UNCHANGED << fetchLog, txLog >>
  \/ AlertUpsert /\ LogKept /\ UNCHANGED << fetchLog, txLog >>
  \/ \E ok \in BOOLEAN : AlertRejected(ok) /\ LogKept /\ UNCHANGED << fetchLog, txLog >>
  \/ \E ok \in BOOLEAN : AlertReplied(ok) /\ LogKept /\ UNCHANGED << fetchLog, txLog >>
  \/ FeeTickStart /\ LogKept /\ UNCHANGED << fetchLog, txLog >>
  \/ \E resp \in FeeResponses :
        FeeTickFetched(resp) /\ LogKept /\ UNCHANGED << fetchLog, txLog >>
  \/ \E ok \in BOOLEAN : FeeFindMany(ok) /\ LogKept /\ UNCHANGED << fetchLog, txLog >>
  \/ \E i \in 1..Cardinality(Chats), sendOk, deleteOk \in BOOLEAN :
        FeeTaskSettle(i, sendOk, deleteOk) /\ LogKept /\ UNCHANGED << fetchLog, txLog >>
  \/ FeeTickEnd /\ LogKept /\ UNCHANGED << fetchLog, txLog >>

SpecRace == Init /\ [][NextRace]_vars

\* The two loops side by side: /tx commands for one transaction id, the
\* transaction loop and the fee loop.
NextLoops ==
  \/ Tick /\ UNCHANGED << fetchLog, fired, txLog >>
  \/ \E chat \in Chats :
        TxCommand(chat, "txa") /\ UNCHANGED << fetchLog, fired, txLog >>
  \/ \E resp \in TxResponses :
        TxFetched(resp) /\ UNCHANGED << fetchLog, fired, txLog >>
  \/ TxInsert /\ UNCHANGED << fetchLog, fired, txLog >>
  \/ \E ok \in BOOLEAN : TxReplied(ok) /\ UNCHANGED << fetchLog, fired, txLog >>
  \/ \E storeOk \in BOOLEAN :
        CheckTxStart(storeOk) /\ UNCHANGED << fetchLog, fired, txLog >>
  \/ \E resp \in TxResponses :
        CheckTxFetched(resp) /\ UNCHANGED << fetchLog, fired, txLog >>
  \/ \E sendOk, updateOk \in BOOLEAN :
        CheckTxSent(sendOk, updateOk) /\ UNCHANGED << fetchLog, fired, txLog >>
  \/ CheckTxNapped /\ UNCHANGED << fetchLog, fired, txLog >>
  \/ FeeTickStart /\ UNCHANGED << fetchLog, fired, txLog >>
  \/ \E resp \in FeeResponses :
        FeeTickFetched(resp) /\ UNCHANGED << fetchLog, fired, txLog >>
  \/ \E ok \in BOOLEAN : FeeFindMany(ok) /\ UNCHANGED << fetchLog, fired, txLog >>
  \/ FeeTickEnd /\ UNCHANGED << fetchLog, fired, txLog >>

SpecLoops == Init /\ [][NextLoops]_vars

\* ------------------------------------------------------------------ claims
\* C1: a tick of the fee loop (checkFeesJob under runJobInterval, the
\* while(true) sweep of part_000) in which a step fails (the upstream fetch
\* throws, a store call throws) does not end the loop: the loop is never
\* left terminated, with no next tick to come.
C1_FailedTickKeepsLoop == feeJob.pc # "terminated"

\* C2: any two fetchFees calls that returned and started within 60 seconds of
\* each other returned the same snapshot and made at most one upstream
\* request together.
C2_SameSnapshotOneRequest ==
  \A i, j \in 1..Len(fetchLog.calls) :
    LET a == fetchLog.calls[i]
        b == fetchLog.calls[j]
    IN  ( /\ i < j
          /\ a.ago < LogCap
          /\ b.ago < LogCap
          /\ a.ago - b.ago <= CacheTTL
          /\ b.ago - a.ago <= CacheTTL )
        => (a.data = b.data /\ ~(a.upstream /\ b.upstream))

\* The fetchFees call of the handler, or of the fee loop, gets its answer in
\* this step.
HandlerAnswered ==
  handler.pc = "fees_fetching" /\ handler'.pc \in {"fees_ready", "thrown"}
JobAnswered ==
  feeJob.pc = "fetching" /\ feeJob'.pc \in {"fees_ready", "terminated"}

\* C3: when the upstream fetch throws or answers with a non-success status,
\* fetchFees fails and leaves the cached snapshot and its timestamp as they
\* were, so that the next call asks the upstream again.
C3_FailedFetchStoresNothing ==
  [][ ((HandlerAnswered \/ JobAnswered) /\ fetchLog'.answer = "failure")
      => /\ cached' = cached
         /\ cachedAge' = cachedAge
         /\ HandlerAnswered => handler'.pc = "thrown"
         /\ JobAnswered => feeJob'.pc = "terminated" ]_vars

\* The fee of the tier an alert names in its feeType.
FeeOfTier(fees, feeType) ==
  IF feeType = "hourFee" THEN fees.hourFee ELSE fees.economyFee

TickEnds == feeJob.pc = "settling" /\ feeJob'.pc = "sleeping"

\* C4 as claimed: when a tick ends, no alert is left in the store for the
\* chat of a matched alert whose send succeeded and whose deleteOne did not
\* fail, whatever /alert handlers of that chat did meanwhile.
C4_NoAlertAfterFiring ==
  [][ TickEnds =>
        \A chat \in fired.fulfilled : AlertsOf(Alerts', chat) = {} ]_vars

\* C4 as amended: the same, for the chats no /alert handler of which wrote to
\* the store between the tick's findMany and the tick's end.
C4_NoAlertAfterFiringUnlessRewritten ==
  [][ TickEnds =>
        \A chat \in fired.fulfilled \ fired.written :
          AlertsOf(Alerts', chat) = {} ]_vars

\* A tick is about to end after a matched alert's send and delete succeeded,
\* with no write of an /alert handler of its chat meanwhile.
C4_Witness ==
  /\ feeJob.pc = "settling"
  /\ fired.fulfilled \ fired.written # {}
  /\ \A i \in 1..Len(feeJob.tasks) : feeJob.tasks[i].status # "sending"

\* C5: when the handler of a valid /alert t returns after its confirmation
\* reply, the store holds exactly one alert of the chat, with threshold t
\* (granted even that no task removed the alert after the handler's write).
C5_ExactlyOneAlertAfterAlert ==
  [][ ( /\ handler.pc = "alert_written"
        /\ handler'.pc = "idle"
        /\ handler.chat \notin fired.afterWrite )
      => /\ Cardinality(AlertsOf(Alerts', handler.chat)) = 1
         /\ \A i \in AlertsOf(Alerts', handler.chat) :
              Alerts'[i].feeAmount = handler.feeAmount ]_vars

\* C6: every alert in the store when a tick queries it, whose threshold is
\* >= the snapshot's fee of the tier named in its feeType, is in the tick's
\* match set and gets a send.
C6_SatisfiedAlertsMatched ==
  [][ Queried =>
        \A i \in 1..Len(Alerts) :
          ( /\ feeJob.fees.kind = "fees"
            /\ Alerts[i].feeAmount >= FeeOfTier(feeJob.fees, Alerts[i].feeType) )
          => \E k \in 1..Len(feeJob'.tasks) :
               feeJob'.tasks[k] = [status |-> "sending", alert |-> Alerts[i]] ]_vars

\* A tick has a send under way for an alert whose threshold equals the fee,
\* and has left out another whose threshold is below it.
C6_Witness ==
  /\ feeJob.pc = "settling"
  /\ \E k \in 1..Len(feeJob.tasks) :
        /\ feeJob.tasks[k].status = "sending"
        /\ feeJob.tasks[k].alert.feeAmount =
             FeeOfTier(feeJob.fees, feeJob.tasks[k].alert.feeType)
  /\ \E i \in 1..Len(Alerts) :
        Alerts[i].feeAmount < FeeOfTier(feeJob.fees, Alerts[i].feeType)

\* C7 as claimed: once a task of a chat has sent its notification and its
\* deleteOne has not failed, no send to that chat is under way until the chat
\* issues a new valid /alert command.
C7_OneShot ==
  \A k \in 1..Len(feeJob.tasks) :
    feeJob.tasks[k].status = "sending"
      => feeJob.tasks[k].alert.telegram_id \notin fired.settled

\* C7 as amended: once a task of a chat has sent its notification and its
\* deleteOne has removed the alert, no send to that chat is under way until
\* the chat issues a new valid /alert command.
C7_OneShotOnceRemoved ==
  \A k \in 1..Len(feeJob.tasks) :
    feeJob.tasks[k].status = "sending"
      => feeJob.tasks[k].alert.telegram_id \notin fired.removed

\* A later tick runs, with a send under way, while a chat whose alert fired
\* has not re-subscribed.
C7_Witness ==
  /\ fired.removed # {}
  /\ feeJob.pc = "settling"
  /\ \E k \in 1..Len(feeJob.tasks) : feeJob.tasks[k].status = "sending"

\* The records of a chat and a transaction id in the store.
WatchesOf(docs, chat, txId) ==
  { i \in 1..Len(docs) : docs[i].telegram_id = chat /\ docs[i].txId = txId }

\* C8: in every step every record stays in the store, at its place and with
\* its chat and transaction id, and a confirmed record stays confirmed; and
\* whenever the transaction loop has a notification under way, or updates a
\* record, the watch it is for is in the store and not confirmed.
C8_ConfirmedMonotone ==
  [][ /\ \A i \in 1..Len(Transactions) :
            /\ i <= Len(Transactions')
            /\ Transactions'[i].telegram_id = Transactions[i].telegram_id
            /\ Transactions'[i].txId = Transactions[i].txId
            /\ Transactions[i].confirmed => Transactions'[i].confirmed
      /\ txJob'.pc = "sending" =>
            LET w == txJob'.unconfirmedTransactions[txJob'.i]
                at == WatchesOf(Transactions', w.telegram_id, w.txId)
            IN  at # {} /\ \A i \in at : ~Transactions'[i].confirmed ]_vars

\* The transaction loop has a notification under way while the store holds
\* a confirmed record.
C8_Witness ==
  /\ txJob.pc = "sending"
  /\ \E i \in 1..Len(Transactions) : Transactions[i].confirmed

\* C9: the store never holds two records with the same chat and the same
\* transaction id.
C9_OneRecordPerPair ==
  \A i, j \in 1..Len(Transactions) :
    ( /\ Transactions[i].telegram_id = Transactions[j].telegram_id
      /\ Transactions[i].txId = Transactions[j].txId )
    => i = j

\* A /tx request for a pair that has a confirmed record is being turned
\* down, and the store holds records of both chats.
C9_Witness ==
  /\ handler.pc = "tx_exists"
  /\ handler.tx.confirmed
  /\ Cardinality(WatchesOf(Transactions, handler.chat, handler.txId)) = 1
  /\ \E i \in 1..Len(Transactions) : Transactions[i].telegram_id # handler.chat

\* C10: a step of the /tx handler changes the store only by appending the
\* unconfirmed record of its chat and transaction id, and only when the
\* upstream answered the handler's fetch with status 200 and a transaction
\* that is not confirmed.
C10_InsertOnlyUnconfirmed ==
  [][ (handler' # handler /\ Transactions' # Transactions)
      => /\ txLog.status = 200
         /\ ~txLog.confirmed
         /\ Transactions' =
              Append(Transactions, [telegram_id |-> handler.chat,
                                    txId |-> handler.txId, confirmed |-> FALSE]) ]_vars

\* The handler has inserted a record after the upstream answered 200 and
\* unconfirmed.
C10_Witness ==
  /\ handler.pc = "tx_inserted"
  /\ txLog.status = 200
  /\ ~txLog.confirmed
  /\ WatchesOf(Transactions, handler.chat, handler.txId) # {}

\* C11: a /tx handler whose argument is missing or has length <= 50 goes to
\* its reply without calling fetchTransaction, and from there returns (or
\* throws, when the reply fails); none of its steps changes the Transactions
\* or the Alerts collection.
C11_ShortTxRejected ==
  [][ ( /\ handler' # handler
        /\ \/ handler.cmd = "tx" /\ TxLength(handler.txId) <= 50
           \/ handler'.cmd = "tx" /\ TxLength(handler'.txId) <= 50 )
      => /\ Transactions' = Transactions
         /\ Alerts' = Alerts
         /\ handler.pc = "idle" => handler'.pc \in {"tx_missing", "tx_invalid"}
         /\ handler.pc # "idle" =>
              /\ handler.pc \in {"tx_missing", "tx_invalid"}
              /\ handler'.pc \in {"idle", "thrown", "killed"} ]_vars

\* The handler is replying to a /tx whose argument has exactly 50 characters,
\* while the store holds a record.
C11_Witness ==
  /\ handler.pc = "tx_invalid"
  /\ TxLength(handler.txId) = 50
  /\ Transactions # << >>

\* C12, for the transaction loop: when the sendMessage for a record the
\* upstream reports confirmed is rejected, the store stays as it is and the
\* loop is not terminated, so that a later tick can send again.
C12_FailedSendRetried ==
  [][ (txLog'.sendFailed /\ ~txLog.sendFailed)
      => /\ Transactions' = Transactions
         /\ txJob'.pc # "terminated" ]_vars

\* A tick of the transaction loop starts (its findMany returns).
SweepStarts ==
  /\ txJob.pc = "sleeping" /\ txJob.timer = 0
  /\ txJob'.pc \in {"sleeping", "fetching"}
  /\ txJob' # txJob

\* C13: when the upstream answers not-found for a record of the transaction
\* loop, the step changes no record and starts no send; every tick that
\* starts lists every record that is not confirmed, takes the listed records
\* one after the other and ends only after the last; and when the send for a
\* record succeeds and the update does not fail, the record is confirmed.
C13_NotFoundRetried ==
  [][ /\ (txJob.pc = "fetching" /\ txLog'.sweep = "not_found")
           => Transactions' = Transactions /\ txJob'.pc = "napping"
      /\ SweepStarts =>
           /\ \A k \in 1..Len(Transactions) :
                ~Transactions[k].confirmed =>
                  \E j \in 1..Len(txJob'.unconfirmedTransactions) :
                    txJob'.unconfirmedTransactions[j] = Transactions[k]
           /\ txJob'.pc = "fetching" => txJob'.i = 1
      /\ (txJob.pc = "napping" /\ txJob' # txJob /\ alive') =>
           IF txJob.i < Len(txJob.unconfirmedTransactions)
           THEN txJob'.pc = "fetching" /\ txJob'.i = txJob.i + 1
           ELSE txJob'.pc = "sleeping"
      /\ (txJob.pc = "sending" /\ txJob'.pc = "napping") =>
           LET w == txJob.unconfirmedTransactions[txJob.i] IN
           \E k \in WatchesOf(Transactions', w.telegram_id, w.txId) :
             Transactions'[k].confirmed ]_vars

\* In a tick after one in which a send succeeded, the upstream answers
\* not-found for a record.
C13_Witness ==
  /\ txJob.pc = "napping"
  /\ txLog.sweep = "not_found"
  /\ txLog.sent # {}
  /\ \A k \in 1..Len(txJob.unconfirmedTransactions) :
        << txJob.unconfirmedTransactions[k].telegram_id,
           txJob.unconfirmedTransactions[k].txId >> \notin txLog.sent

\* C14: in a tick of the fee loop, a task whose send and delete succeed
\* removes its matched alert from the store whatever became of the other
\* tasks; the tick ends only when every task has settled; and from the
\* fan-out on the tick does not raise: the loop is not terminated by it.
C14_TasksIndependent ==
  [][ /\ \A i \in 1..Len(feeJob.tasks) :
            Fulfilled(i) =>
              \A k \in 1..Len(Alerts') : Alerts'[k] # feeJob.tasks[i].alert
      /\ TickEnds =>
            \A i \in 1..Len(feeJob.tasks) : feeJob.tasks[i].status # "sending"
      /\ feeJob.pc = "settling" => feeJob'.pc # "terminated" ]_vars

\* A tick in which the task of one alert was rejected and the task of another
\* was fulfilled, and removed its alert, is about to end.
C14_Witness ==
  /\ feeJob.pc = "settling"
  /\ Len(feeJob.tasks) = 2
  /\ \E i, j \in 1..Len(feeJob.tasks) :
        feeJob.tasks[i].status = "rejected" /\ feeJob.tasks[j].status = "fulfilled"
  /\ Len(Alerts) = 1
  /\ fired.written = {}

\* A tick of the fee loop, or of the transaction loop, is in progress.
FeeTickRunning(job) == job.pc \in {"fetching", "fees_ready", "settling"}
TxTickRunning(job) == job.pc \in {"fetching", "sending", "napping"}

\* C15: the timer of a loop's next tick is armed only by the step in which
\* the loop's running tick returns; no timer is pending while a tick of the
\* loop is in progress; and a tick starts only from a loop that is between
\* two ticks with its timer run out.  So two ticks of one loop never overlap.
C15_OneTickPerLoop ==
  [][ /\ feeJob'.timer > feeJob.timer =>
            feeJob.pc = "settling" /\ feeJob'.pc = "sleeping"
      /\ txJob'.timer > txJob.timer =>
            /\ txJob'.pc = "sleeping"
            /\ txJob.pc = "napping" \/ (txJob.pc = "sleeping" /\ txJob.timer = 0)
      /\ FeeTickRunning(feeJob') => feeJob'.timer = 0
      /\ TxTickRunning(txJob') => txJob'.timer = 0
      /\ (FeeTickRunning(feeJob') /\ ~FeeTickRunning(feeJob)) =>
            feeJob.pc = "sleeping" /\ feeJob.timer = 0
      /\ (TxTickRunning(txJob') /\ ~TxTickRunning(txJob)) =>
            txJob.pc = "sleeping" /\ txJob.timer = 0 ]_vars

\* A tick of the fee loop and a tick of the transaction loop are in progress
\* at once.
C15_Witness == FeeTickRunning(feeJob) /\ TxTickRunning(txJob)

\* C16: a record becomes confirmed only in the step in which the send of the
\* transaction loop for that very record succeeds, after the upstream
\* reported the transaction confirmed to the same tick; and every confirmed
\* record in the store has had a notification sent to its chat.
C16_ConfirmedAfterSend ==
  [][ /\ \A k \in 1..Len(Transactions) :
            ( /\ ~Transactions[k].confirmed
              /\ k <= Len(Transactions')
              /\ Transactions'[k].confirmed )
            => /\ txJob.pc = "sending"
               /\ txLog.sweep = "confirmed"
               /\ Transactions[k] = txJob.unconfirmedTransactions[txJob.i]
               /\ << Transactions[k].telegram_id, Transactions[k].txId >>
                    \in txLog'.sent \ txLog.sent
      /\ \A k \in 1..Len(Transactions') :
            Transactions'[k].confirmed =>
              << Transactions'[k].telegram_id, Transactions'[k].txId >>
                \in txLog'.sent ]_vars

\* The store holds a confirmed record, whose notification was sent, beside a
\* record of the same transaction that is not confirmed.
C16_Witness ==
  \E k, j \in 1..Len(Transactions) :
    /\ Transactions[k].confirmed
    /\ << Transactions[k].telegram_id, Transactions[k].txId >> \in txLog.sent
    /\ ~Transactions[j].confirmed
    /\ Transactions[j].txId = Transactions[k].txId

\* C17: a record leaves the store only when the /alert handler of its chat
\* rewrites it, or in the step in which a task of the running tick, whose
\* send for that very alert succeeded, deletes it; when
\* the send succeeds and the delete fails the store stays as it is; and a
\* tick whose snapshot satisfies the threshold of such an alert, still in the
\* store, matches it and sends for it again.
C17_SendThenDelete ==
  [][ /\ \A a \in Docs(Alerts) \ Docs(Alerts') :
            \/ Wrote /\ handler.chat = a.telegram_id
            \/ \E i \in 1..Len(feeJob.tasks) :
                 Fulfilled(i) /\ feeJob.tasks[i].alert = a
      /\ fired'.unremoved \ fired.unremoved # {} => Alerts' = Alerts
      /\ Queried =>
            \A a \in fired.unremoved :
              ( /\ a \in Docs(Alerts)
                /\ feeJob.fees.kind = "fees"
                /\ a.feeAmount >= FeeOfTier(feeJob.fees, a.feeType) )
              => \E k \in 1..Len(feeJob'.tasks) :
                   feeJob'.tasks[k] = [status |-> "sending", alert |-> a] ]_vars

\* A later tick is about to query the store with a snapshot that satisfies
\* an alert whose notification was sent and whose delete failed.
C17_Witness ==
  /\ feeJob.pc = "fees_ready"
  /\ feeJob.fees.kind = "fees"
  /\ \E a \in fired.unremoved :
        a \in Docs(Alerts) /\ a.feeAmount >= FeeOfTier(feeJob.fees, a.feeType)

\* C18: the Alerts collection never holds two alerts of the same chat.
C18_OneAlertPerChat ==
  \A chat \in Chats : Cardinality(AlertsOf(Alerts, chat)) <= 1

\* An /alert handler that found its chat's alert has rewritten it while a
\* tick is settling its tasks, and every chat has an alert in the store.
C18_Witness ==
  /\ handler.pc = "alert_written"
  /\ handler.userAlert # NullAlert
  /\ feeJob.pc = "settling"
  /\ \A chat \in Chats : AlertsOf(Alerts, chat) # {}

\* C19: when a task's send has succeeded and its deleteOne runs while the
\* alert of its chat in the store has another threshold than the alert the
\* tick matched, the deleteOne leaves the store as it is; and when the tick
\* ends, the changed alert is in the store as the handler wrote it, unless
\* the handler of that chat has written again since.
C19_ChangedAlertKept ==
  [][ /\ \A i \in 1..Len(feeJob.tasks) :
            ( /\ Fulfilled(i)
              /\ \E b \in Docs(Alerts) :
                    /\ b.telegram_id = feeJob.tasks[i].alert.telegram_id
                    /\ b.feeAmount # feeJob.tasks[i].alert.feeAmount )
            => Alerts' = Alerts
      /\ TickEnds => fired.kept \subseteq Docs(Alerts') ]_vars

\* Every task of the tick has settled, and the deleteOne of one of them
\* found the alert of its chat changed by the /alert handler.
C19_Witness ==
  /\ feeJob.pc = "settling"
  /\ fired.kept # {}
  /\ \A k \in 1..Len(feeJob.tasks) : feeJob.tasks[k].status # "sending"

====
